---- MODULE Spec2Model ----
(***************************************************************************)
(* weasyprint.layout.preferred: preferred and minimum preferred width,     *)
(* aka. the shrink-to-fit algorithm.                                       *)
(*                                                                         *)
(* The box tree is a heap  box : id -> record ; a call of shrink_to_fit,   *)
(* preferred_width or preferred_mimimum_width is one action that returns a *)
(* result and the heap it leaves (replaced_preferred_width writes the      *)
(* width of the box it measures).  A second specification, SpecConc, runs  *)
(* two shrink_to_fit calls as threads, one statement of the code at a time.*)
(***************************************************************************)
EXTENDS Integers, Sequences, FiniteSets, TLC

VARIABLES box, pre, call, result, thr, last, overlap

vars == <<box, pre, call, result, thr, last, overlap>>

\* ------------------------------------------------------------- bounds
\* children of one container in the enumerated trees
MaxChildren == 2
\* maximum_width is None or one of 0..MaxWidth
MaxWidth == 2

\* ---------------------------------------------------------- constants
\* box.width == 'auto'
Auto == -1
\* maximum_width=None
None == -1

Max(a, b) == IF a >= b THEN a ELSE b

\* Python's max(a, b) of two widths, either of which may be 'auto': a
\* string orders above every number (Python 2)
PyMax(a, b) == IF a = Auto \/ b = Auto THEN Auto ELSE Max(a, b)

RECURSIVE SeqMax(_)
\* Python's max() of a non-empty sequence
SeqMax(s) == IF Len(s) = 1 THEN s[1] ELSE Max(s[1], SeqMax(Tail(s)))

\* ------------------------------------------------------------- boxes
Kinds == {"BlockContainerBox", "InlineBox", "LineBox", "TextBox",
          "InlineReplacedBox", "InlineBlockBox", "TableBox"}

\* isinstance(box, boxes.BlockContainerBox)
IsBlockContainerBox(k) == k = "BlockContainerBox"
\* isinstance(box, (boxes.InlineBox, boxes.LineBox))
IsInlineContext(k) == k \in {"InlineBox", "LineBox"}
\* isinstance(child, boxes.AtomicInlineLevelBox): inline-replaced and inline-block
IsAtomicInlineLevelBox(k) == k \in {"InlineReplacedBox", "InlineBlockBox"}
\* isinstance(child, boxes.InlineReplacedBox)
IsInlineReplacedBox(k) == k = "InlineReplacedBox"
\* isinstance(child, boxes.TextBox)
IsTextBox(k) == k = "TextBox"

NoStyle == [unit |-> "auto", value |-> 0]

MkBox(k, w, kids, txt, st, iw) ==
    [kind |-> k, width |-> w, children |-> kids, text |-> txt,
     style |-> st, intrinsic |-> iw]

Container(k, w) == MkBox(k, w, <<>>, <<>>, NoStyle, 0)
Text(txt) == MkBox("TextBox", Auto, <<>>, txt, NoStyle, 0)
Atomic(k, unit, value, iw) ==
    MkBox(k, Auto, <<>>, <<>>, [unit |-> unit, value |-> value], iw)

\* ---------------------------------------------------- text measurer
SP == " "
NL == "\n"

RECURSIVE SplitOn(_, _)
\* the pieces of s between occurrences of sep (sep consumed); never empty
SplitOn(s, sep) ==
    IF s = <<>> THEN << <<>> >>
    ELSE LET rest == SplitOn(Tail(s), sep)
         IN IF s[1] = sep THEN << <<>> >> \o rest
            ELSE << <<s[1]>> \o rest[1] >> \o Tail(rest)

RECURSIVE Greedy(_, _, _)
\* greedy line filling: words in order, cur the width of the line in progress
Greedy(words, cur, W) ==
    IF words = <<>> THEN <<cur>>
    ELSE IF cur + 1 + Len(words[1]) <= W
         THEN Greedy(Tail(words), cur + 1 + Len(words[1]), W)
         ELSE <<cur>> \o Greedy(Tail(words), Len(words[1]), W)

\* the lines of one paragraph (no forced break inside) at wrap width W
ParagraphLines(par, W) ==
    IF W = None THEN <<Len(par)>>
    ELSE LET words == SplitOn(par, SP)
         IN Greedy(Tail(words), Len(words[1]), W)

RECURSIVE ConcatLines(_, _)
ConcatLines(pars, W) ==
    IF pars = <<>> THEN <<>>
    ELSE ParagraphLines(pars[1], W) \o ConcatLines(Tail(pars), W)

\* TextFragment(text, style, context, width).line_widths(): every
\* character 1 wide, soft breaks at spaces, forced breaks at newlines
line_widths(txt, W) == ConcatLines(SplitOn(txt, NL), W)

\* text_lines_width(box, width)
text_lines_width(h, b, W) == line_widths(h[b].text, W)

\* ---------------------------------------------------- replaced sizer
\* resolve_percentages(box, containing_block=(0, 0)): the used width from
\* the style, a percentage taken of the containing block's width 0
resolve_percentages(h, b) ==
    LET st == h[b].style
        w == CASE st.unit = "auto" -> Auto
               [] st.unit = "px" -> st.value
               [] OTHER -> (st.value * 0) \div 100
    IN [h EXCEPT ![b].width = w]

\* replaced_box_width(box, device_size=None): an auto width becomes the
\* intrinsic width
replaced_box_width(h, b) ==
    IF h[b].width = Auto THEN [h EXCEPT ![b].width = h[b].intrinsic] ELSE h

\* ----------------------------------------------------------- results
Ret(w, h) == [ok |-> TRUE, w |-> w, err |-> "", heap |-> h]
Raise(e, h) == [ok |-> FALSE, w |-> 0, err |-> e, heap |-> h]

\* TypeError('... for %s not handled yet')
UnsupportedBoxKind == "UnsupportedBoxKind"
\* TypeError('Width %s is unknown')
UnsupportedWidthMode == "UnsupportedWidthMode"
\* AssertionError of assert isinstance(child, boxes.TextBox)
InvalidInlineChild == "InvalidInlineChild"

\* mutant: the width is taken from the box sized most recently by anyone,
\* as if the result were kept in module state
WidthRead_Last(h, b, lst) == h[lst].width

\* line 156: return box.width (lst is the box sized most recently)
WidthRead(h, b, lst) == h[b].width

\* replaced_preferred_width(box)
replaced_preferred_width(h, b) ==
    LET h1 == resolve_percentages(h, b)
        h2 == replaced_box_width(h1, b)
    IN Ret(WidthRead(h2, b, b), h2)

\* ------------------------------------------- inline contexts, minimum
\* mutant: the contributions of the children are added up
InlineMinFold_Sum(widest_line, current_line) == widest_line + current_line

\* line 109: widest_line = max(widest_line, current_line)
InlineMinFold(widest_line, current_line) == PyMax(widest_line, current_line)

\* line 108: current_line = max(text_lines_width(child, width=0))
InlineMinText(h, c) == SeqMax(text_lines_width(h, c, 0))

\* mutant: every child is sized as a replaced box, no isinstance test
MinTakesReplacedBranch_All(k) == TRUE

\* line 103: which children take the replaced branch
MinTakesReplacedBranch(k) == IsAtomicInlineLevelBox(k)

RECURSIVE InlineMinLoop(_, _, _, _)
\* the for loop of inline_preferred_minimum_width from child i on
InlineMinLoop(h, kids, i, widest_line) ==
    IF i > Len(kids) THEN Ret(widest_line, h)
    ELSE LET c == kids[i]
         IN IF MinTakesReplacedBranch(h[c].kind)
            THEN LET r == replaced_preferred_width(h, c)
                 IN InlineMinLoop(r.heap, kids, i + 1,
                                  InlineMinFold(widest_line, r.w))
            ELSE IF ~IsTextBox(h[c].kind) THEN Raise(InvalidInlineChild, h)
            ELSE InlineMinLoop(h, kids, i + 1,
                               InlineMinFold(widest_line, InlineMinText(h, c)))

inline_preferred_minimum_width(h, b) == InlineMinLoop(h, h[b].children, 1, 0)

\* ----------------------------------------- inline contexts, preferred
\* mutant: line 134 dropped, the line in progress is not folded at a break
InlineTextStep_NoFold(widest_line, current_line, lines) ==
    LET cur1 == current_line + lines[1]
    IN IF Len(lines) > 1
       THEN LET w2 == IF Len(lines) > 2
                      THEN Max(widest_line, SeqMax(SubSeq(lines, 2, Len(lines) - 1)))
                      ELSE widest_line
            IN <<w2, lines[Len(lines)]>>
       ELSE <<widest_line, cur1>>

\* lines 131-137: one text child's lines folded into <<widest_line, current_line>>
InlineTextStep(widest_line, current_line, lines) ==
    LET cur1 == current_line + lines[1]
    IN IF Len(lines) > 1
       THEN LET w1 == Max(widest_line, cur1)
                w2 == IF Len(lines) > 2
                      THEN Max(w1, SeqMax(SubSeq(lines, 2, Len(lines) - 1)))
                      ELSE w1
            IN <<w2, lines[Len(lines)]>>
       ELSE <<widest_line, cur1>>

\* mutant: a replaced child starts a line of its own
InlineReplacedStep_OwnLine(widest_line, current_line, w) ==
    <<Max(widest_line, current_line), w>>

\* line 125: current_line += replaced_preferred_width(child)
InlineReplacedStep(widest_line, current_line, w) == <<widest_line, current_line + w>>

\* line 123: which children take the replaced branch
TakesReplacedBranch(k) == IsInlineReplacedBox(k)

RECURSIVE InlineLoop(_, _, _, _, _, _)
\* the for loop of inline_preferred_width from child i on
InlineLoop(h, kids, i, widest_line, current_line, maximum_width) ==
    IF i > Len(kids) THEN Ret(Max(widest_line, current_line), h)
    ELSE LET c == kids[i]
         IN IF TakesReplacedBranch(h[c].kind)
            THEN LET r == replaced_preferred_width(h, c)
                     s == InlineReplacedStep(widest_line, current_line, r.w)
                 IN InlineLoop(r.heap, kids, i + 1, s[1], s[2], maximum_width)
            ELSE IF ~IsTextBox(h[c].kind) THEN Raise(InvalidInlineChild, h)
            ELSE LET s == InlineTextStep(widest_line, current_line,
                                         text_lines_width(h, c, maximum_width))
                 IN InlineLoop(h, kids, i + 1, s[1], s[2], maximum_width)

inline_preferred_width(h, b, maximum_width) ==
    InlineLoop(h, h[b].children, 1, 0, 0, maximum_width)

\* ----------------------------------------------- dispatcher and blocks
RECURSIVE preferred_mimimum_width(_, _)
RECURSIVE preferred_width(_, _, _)
RECURSIVE BlockMinLoop(_, _, _, _)
RECURSIVE BlockLoop(_, _, _, _, _)

\* max(...) of a generator: the running maximum acc after child i gave w
BlockFold(i, acc, w) == IF i = 1 THEN w ELSE PyMax(acc, w)

\* max(preferred_mimimum_width(child) for child in box.children), child i on
BlockMinLoop(h, kids, i, acc) ==
    IF i > Len(kids) THEN Ret(acc, h)
    ELSE LET r == preferred_mimimum_width(h, kids[i])
         IN IF ~r.ok THEN r
            ELSE BlockMinLoop(r.heap, kids, i + 1, BlockFold(i, acc, r.w))

\* block_preferred_minimum_width(box)
block_preferred_minimum_width(h, b) ==
    IF h[b].width = Auto
    THEN IF h[b].children # <<>>
         THEN BlockMinLoop(h, h[b].children, 1, 0)
         ELSE Ret(0, h)
    ELSE Raise(UnsupportedWidthMode, h)

\* mutant: the children are measured without the caller's bound
ChildMaximumWidth_None(maximum_width) == None

\* the maximum_width block_preferred_width hands to each child
ChildMaximumWidth(maximum_width) == maximum_width

\* max(preferred_width(child, maximum_width) for child in box.children), child i on
BlockLoop(h, kids, i, acc, maximum_width) ==
    IF i > Len(kids) THEN Ret(acc, h)
    ELSE LET r == preferred_width(h, kids[i], ChildMaximumWidth(maximum_width))
         IN IF ~r.ok THEN r
            ELSE BlockLoop(r.heap, kids, i + 1, BlockFold(i, acc, r.w), maximum_width)

\* mutant: the children are looked at before the width
block_preferred_width_EmptyFirst(h, b, maximum_width) ==
    IF h[b].children = <<>> THEN Ret(0, h)
    ELSE IF h[b].width = Auto
         THEN BlockLoop(h, h[b].children, 1, 0, maximum_width)
         ELSE Raise(UnsupportedWidthMode, h)

\* block_preferred_width(box, maximum_width)
block_preferred_width(h, b, maximum_width) ==
    IF h[b].width = Auto
    THEN IF h[b].children # <<>>
         THEN BlockLoop(h, h[b].children, 1, 0, maximum_width)
         ELSE Ret(0, h)
    ELSE Raise(UnsupportedWidthMode, h)

\* preferred_mimimum_width(box)
preferred_mimimum_width(h, b) ==
    IF IsBlockContainerBox(h[b].kind) THEN block_preferred_minimum_width(h, b)
    ELSE IF IsInlineContext(h[b].kind) THEN inline_preferred_minimum_width(h, b)
    ELSE Raise(UnsupportedBoxKind, h)

\* mutant: every box that is no block container goes to the inline resolver
preferred_width_DefaultInline(h, b, maximum_width) ==
    IF IsBlockContainerBox(h[b].kind) THEN block_preferred_width(h, b, maximum_width)
    ELSE inline_preferred_width(h, b, maximum_width)

\* preferred_width(box, maximum_width)
preferred_width(h, b, maximum_width) ==
    IF IsBlockContainerBox(h[b].kind) THEN block_preferred_width(h, b, maximum_width)
    ELSE IF IsInlineContext(h[b].kind) THEN inline_preferred_width(h, b, maximum_width)
    ELSE Raise(UnsupportedBoxKind, h)

\* shrink_to_fit(box, maximum_width): preferred_width first, then
\* preferred_mimimum_width on the heap it left
shrink_to_fit(h, b, maximum_width) ==
    LET p == preferred_width(h, b, maximum_width)
    IN IF ~p.ok THEN [ok |-> FALSE, pw |-> 0, pmw |-> 0, err |-> p.err, heap |-> p.heap]
       ELSE LET m == preferred_mimimum_width(p.heap, b)
            IN IF ~m.ok
               THEN [ok |-> FALSE, pw |-> 0, pmw |-> 0, err |-> m.err, heap |-> m.heap]
               ELSE [ok |-> TRUE, pw |-> p.w, pmw |-> m.w, err |-> "", heap |-> m.heap]

\* ------------------------------------------------------- box trees
\* a tree is a box (children not yet numbered) and its child trees
T(b, kids) == [box |-> b, kids |-> kids]

RECURSIVE Flat(_, _)
RECURSIVE FlatKids(_, _)

\* the heap cells of tree t, its root stored at id base, in preorder
Flat(t, base) ==
    LET k == FlatKids(t.kids, base + 1)
    IN <<[t.box EXCEPT !.children = k.ids]>> \o k.cells

FlatKids(kids, base) ==
    IF kids = <<>> THEN [ids |-> <<>>, cells |-> <<>>]
    ELSE LET first == Flat(kids[1], base)
             rest == FlatKids(Tail(kids), base + Len(first))
         IN [ids |-> <<base>> \o rest.ids, cells |-> first \o rest.cells]

\* the heap of tree t: box ids 1..n, the root is box 1
Heap(t) == Flat(t, 1)

SeqsUpTo(S, n) == UNION {[1..k -> S] : k \in 0..n}

TxtEmpty == <<>>
TxtAbCd == <<"a", "b", SP, "c", "d">>
TxtABC == <<"a", SP, "b", SP, "c">>
TxtTwoLines == <<"a", "b", SP, "c", "d", NL, "e", "f", SP, "g", "h">>
TxtThreeLines == <<"a", "b", NL, "a", "b", "c", NL, "a">>
TxtLongFirst == <<"a", "b", "c", NL, "a">>
Txt10and3 == <<"a", "a", "a", SP, "a", "a", "a", SP, "a", "a">>
Txt7and5 == <<"a", "a", "a", "a", "a", SP, "a">>

Image50 == Atomic("InlineReplacedBox", "auto", 0, 50)

\* the children an enumerated inline context is built from
InlineLeaves ==
    {T(Text(t), <<>>) : t \in {TxtEmpty, TxtABC, TxtThreeLines, TxtLongFirst}}
    \cup {T(Image50, <<>>),
          T(Atomic("InlineReplacedBox", "px", 2, 50), <<>>),
          T(Atomic("InlineBlockBox", "auto", 0, 4), <<>>),
          T(Container("InlineBox", Auto), <<>>)}

\* a line box of one child, with text or a replaced box sized by percentage
LineLeaves ==
    {T(Text(TxtAbCd), <<>>), T(Text(TxtTwoLines), <<>>),
     T(Atomic("InlineReplacedBox", "%", 50, 50), <<>>)}

InlineTrees ==
    {T(Container("InlineBox", Auto), kids) : kids \in SeqsUpTo(InlineLeaves, MaxChildren)}
    \cup {T(Container("LineBox", Auto), kids) : kids \in SeqsUpTo(LineLeaves, 1)}

\* the fixed lengths a block container's width is drawn from
FixedWidths == {7}

FixedBlock == {Container("BlockContainerBox", w) : w \in FixedWidths}

\* the children an enumerated block container is built from
BlockChildren ==
    {T(Container("BlockContainerBox", Auto),
         <<T(Container("InlineBox", Auto), <<T(Text(Txt10and3), <<>>)>>)>>),
     T(Container("LineBox", Auto), <<T(Text(Txt7and5), <<>>)>>),
     T(Container("BlockContainerBox", Auto), <<>>),
     T(Container("InlineBox", Auto), <<T(Image50, <<>>)>>),
     T(Text(TxtAbCd), <<>>),
     T(Image50, <<>>)}
    \cup {T(b, <<>>) : b \in FixedBlock}
    \cup {T(Container("BlockContainerBox", Auto), <<T(b, <<>>)>>) : b \in FixedBlock}

BlockTrees ==
    {T(Container("BlockContainerBox", Auto), kids) :
        kids \in SeqsUpTo(BlockChildren, MaxChildren)}
    \cup {T(b, kids) : b \in FixedBlock, kids \in SeqsUpTo(BlockChildren, 1)}

\* boxes the dispatcher does not route, alone at the top level
LeafTrees ==
    {T(Text(TxtAbCd), <<>>), T(Image50, <<>>),
     T(Atomic("InlineBlockBox", "auto", 0, 4), <<>>),
     T(Container("TableBox", Auto), <<>>)}

Trees == InlineTrees \cup BlockTrees \cup LeafTrees

MaximumWidths == {None} \cup 0..MaxWidth

\* ------------------------------------------------- sequential calls
NoCall == [fn |-> "none", b |-> 0, mw |-> None]
NoResult == [ok |-> FALSE, pw |-> None, pmw |-> None, err |-> ""]
NoThreads == <<>>

Init ==
    /\ box \in {Heap(t) : t \in Trees}
    /\ pre = box
    /\ call = NoCall
    /\ result = NoResult
    /\ thr = NoThreads
    /\ last = 0
    /\ overlap = FALSE

\* preferred_width(box, maximum_width) called on the root
CallPreferredWidth ==
    \E mw \in MaximumWidths :
        LET r == preferred_width(box, 1, mw)
        IN /\ call' = [fn |-> "preferred_width", b |-> 1, mw |-> mw]
           /\ result' = [ok |-> r.ok, pw |-> IF r.ok THEN r.w ELSE None,
                         pmw |-> None, err |-> r.err]
           /\ box' = r.heap
           /\ pre' = box
           /\ UNCHANGED <<thr, last, overlap>>

\* preferred_mimimum_width(box) called on the root
CallPreferredMinimumWidth ==
    LET r == preferred_mimimum_width(box, 1)
    IN /\ call' = [fn |-> "preferred_mimimum_width", b |-> 1, mw |-> None]
       /\ result' = [ok |-> r.ok, pw |-> None,
                     pmw |-> IF r.ok THEN r.w ELSE None, err |-> r.err]
       /\ box' = r.heap
       /\ pre' = box
       /\ UNCHANGED <<thr, last, overlap>>

\* shrink_to_fit(box, maximum_width) called on the root
CallShrinkToFit ==
    \E mw \in MaximumWidths :
        LET r == shrink_to_fit(box, 1, mw)
        IN /\ call' = [fn |-> "shrink_to_fit", b |-> 1, mw |-> mw]
           /\ result' = [ok |-> r.ok, pw |-> IF r.ok THEN r.pw ELSE None,
                         pmw |-> IF r.ok THEN r.pmw ELSE None, err |-> r.err]
           /\ box' = r.heap
           /\ pre' = box
           /\ UNCHANGED <<thr, last, overlap>>

Next == CallPreferredWidth \/ CallPreferredMinimumWidth \/ CallShrinkToFit

Spec == Init /\ [][Next]_vars

\* ------------------------------------------ two concurrent calls
\* One thread runs shrink_to_fit(root, mw); its stack holds a frame for
\* each function in progress, and a step is one statement of the code.
Frame(fn, b, mw) ==
    [fn |-> fn, b |-> b, mw |-> mw, i |-> 1, widest_line |-> 0,
     current_line |-> 0, pc |-> 0, pw |-> 0]

Thread(r, mw) ==
    [root |-> r, mw |-> mw, stack |-> <<Frame("shrink_to_fit", r, mw)>>,
     status |-> "running", pw |-> None, pmw |-> None, err |-> ""]

Top(th) == th.stack[Len(th.stack)]
Pop(st) == SubSeq(st, 1, Len(st) - 1)
SetTop(st, f) == [st EXCEPT ![Len(st)] = f]
Raised(th, e) == [th EXCEPT !.status = "raised", !.err = e, !.stack = <<>>]

\* TypeError of current_line += 'auto', or of max(int, str) under Python 3
TypeError == "TypeError"

\* the thread after its top frame (already popped, st is what is left)
\* returned v to its caller: the set of outcomes the interpreter allows
Deliver(th, st, v) ==
    LET f == st[Len(st)]
    IN CASE f.fn = "shrink_to_fit" ->
              IF f.pc = 0
              THEN {[th EXCEPT !.stack = SetTop(st, [f EXCEPT !.pc = 1, !.pw = v])]}
              ELSE {[th EXCEPT !.status = "returned", !.pw = f.pw, !.pmw = v,
                               !.stack = <<>>]}
         [] f.fn \in {"block_preferred_width", "block_preferred_minimum_width"} ->
              {[th EXCEPT !.stack = SetTop(st,
                    [f EXCEPT !.widest_line = BlockFold(f.i, f.widest_line, v),
                              !.i = f.i + 1])]}
         [] f.fn = "inline_preferred_width" ->
              IF v = Auto THEN {Raised(th, TypeError)}
              ELSE LET n == InlineReplacedStep(f.widest_line, f.current_line, v)
                   IN {[th EXCEPT !.stack = SetTop(st,
                          [f EXCEPT !.widest_line = n[1], !.current_line = n[2],
                                    !.i = f.i + 1])]}
         [] OTHER ->
              {[th EXCEPT !.stack = SetTop(st,
                    [f EXCEPT !.widest_line = InlineMinFold(f.widest_line, v),
                              !.i = f.i + 1])]}
              \cup IF v = Auto \/ f.widest_line = Auto
                   THEN {Raised(th, TypeError)} ELSE {}

\* the thread after the frame on top of st called preferred_width (min
\* FALSE) or preferred_mimimum_width (min TRUE) on box c
Dispatch(h, th, st, c, mw, min) ==
    IF IsBlockContainerBox(h[c].kind)
    THEN IF h[c].width = Auto
         THEN IF h[c].children # <<>>
              THEN {[th EXCEPT !.stack = Append(st,
                       Frame(IF min THEN "block_preferred_minimum_width"
                             ELSE "block_preferred_width", c, mw))]}
              ELSE Deliver(th, st, 0)
         ELSE {Raised(th, UnsupportedWidthMode)}
    ELSE IF IsInlineContext(h[c].kind)
         THEN {[th EXCEPT !.stack = Append(st,
                  Frame(IF min THEN "inline_preferred_minimum_width"
                        ELSE "inline_preferred_width", c, mw))]}
         ELSE {Raised(th, UnsupportedBoxKind)}

Running(t) == thr[t].status = "running"
Other(t) == 3 - t
\* the other thread is between the statements of replaced_preferred_width
InsideSizer(t) ==
    /\ Running(t)
    /\ Top(thr[t]).fn = "replaced_preferred_width"
    /\ Top(thr[t]).pc > 0

LocalStep(t, new) ==
    /\ thr' = [thr EXCEPT ![t] = new]
    /\ UNCHANGED <<box, pre, call, result, last, overlap>>

\* shrink_to_fit calls preferred_width, then preferred_mimimum_width; a
\* block resolver calls the dispatcher on its next child
ThreadCall(t) ==
    /\ Running(t)
    /\ LET th == thr[t]
           f == Top(th)
       IN \/ /\ f.fn = "shrink_to_fit"
             /\ \E new \in Dispatch(box, th, th.stack, f.b, f.mw, f.pc = 1) :
                    LocalStep(t, new)
          \/ /\ f.fn = "block_preferred_width"
             /\ f.i <= Len(box[f.b].children)
             /\ \E new \in Dispatch(box, th, th.stack, box[f.b].children[f.i],
                                    ChildMaximumWidth(f.mw), FALSE) :
                    LocalStep(t, new)
          \/ /\ f.fn = "block_preferred_minimum_width"
             /\ f.i <= Len(box[f.b].children)
             /\ \E new \in Dispatch(box, th, th.stack, box[f.b].children[f.i],
                                    f.mw, TRUE) :
                    LocalStep(t, new)

\* a block resolver's max(...) is complete: return it
ThreadBlockReturn(t) ==
    /\ Running(t)
    /\ LET th == thr[t]
           f == Top(th)
       IN /\ f.fn \in {"block_preferred_width", "block_preferred_minimum_width"}
          /\ f.i > Len(box[f.b].children)
          /\ \E new \in Deliver(th, Pop(th.stack), f.widest_line) :
                 LocalStep(t, new)

\* one iteration of an inline resolver's loop up to its call of
\* replaced_preferred_width, or the whole iteration for a text child
ThreadInlineChild(t) ==
    /\ Running(t)
    /\ LET th == thr[t]
           f == Top(th)
           min == f.fn = "inline_preferred_minimum_width"
       IN /\ f.fn \in {"inline_preferred_width", "inline_preferred_minimum_width"}
          /\ f.i <= Len(box[f.b].children)
          /\ LET c == box[f.b].children[f.i]
                 k == box[c].kind
             IN IF (min /\ MinTakesReplacedBranch(k)) \/ (~min /\ TakesReplacedBranch(k))
                THEN LocalStep(t, [th EXCEPT !.stack =
                        Append(th.stack, Frame("replaced_preferred_width", c, None))])
                ELSE IF ~IsTextBox(k)
                THEN LocalStep(t, Raised(th, InvalidInlineChild))
                ELSE IF min
                THEN LocalStep(t, [th EXCEPT !.stack = SetTop(th.stack,
                        [f EXCEPT !.widest_line =
                                     InlineMinFold(f.widest_line, InlineMinText(box, c)),
                                  !.i = f.i + 1])])
                ELSE LET n == InlineTextStep(f.widest_line, f.current_line,
                                             text_lines_width(box, c, f.mw))
                     IN LocalStep(t, [th EXCEPT !.stack = SetTop(th.stack,
                           [f EXCEPT !.widest_line = n[1], !.current_line = n[2],
                                     !.i = f.i + 1])])

\* an inline resolver's loop is over: return widest_line
ThreadInlineReturn(t) ==
    /\ Running(t)
    /\ LET th == thr[t]
           f == Top(th)
       IN /\ f.fn \in {"inline_preferred_width", "inline_preferred_minimum_width"}
          /\ f.i > Len(box[f.b].children)
          /\ \E new \in Deliver(th, Pop(th.stack),
                                IF f.fn = "inline_preferred_width"
                                THEN Max(f.widest_line, f.current_line)
                                ELSE f.widest_line) :
                 LocalStep(t, new)

\* line 154: resolve_percentages(box, containing_block=(0, 0))
ThreadResolvePercentages(t) ==
    /\ Running(t)
    /\ LET f == Top(thr[t])
       IN /\ f.fn = "replaced_preferred_width" /\ f.pc = 0
          /\ box' = resolve_percentages(box, f.b)
          /\ thr' = [thr EXCEPT ![t].stack = SetTop(@, [f EXCEPT !.pc = 1])]
          /\ overlap' = (overlap \/ InsideSizer(Other(t)))
          /\ UNCHANGED <<pre, call, result, last>>

\* line 155: replaced_box_width(box, device_size=None)
ThreadReplacedBoxWidth(t) ==
    /\ Running(t)
    /\ LET f == Top(thr[t])
       IN /\ f.fn = "replaced_preferred_width" /\ f.pc = 1
          /\ box' = replaced_box_width(box, f.b)
          /\ last' = f.b
          /\ thr' = [thr EXCEPT ![t].stack = SetTop(@, [f EXCEPT !.pc = 2])]
          /\ overlap' = (overlap \/ InsideSizer(Other(t)))
          /\ UNCHANGED <<pre, call, result>>

\* line 156: return box.width, taken by the loop that called
ThreadReadWidth(t) ==
    /\ Running(t)
    /\ LET th == thr[t]
           f == Top(th)
       IN /\ f.fn = "replaced_preferred_width" /\ f.pc = 2
          /\ \E new \in Deliver(th, Pop(th.stack), WidthRead(box, f.b, last)) :
                 thr' = [thr EXCEPT ![t] = new]
          /\ overlap' = (overlap \/ InsideSizer(Other(t)))
          /\ UNCHANGED <<box, pre, call, result, last>>

\* the tree two threads measure: a block container of two inline contexts
ConcLeaves ==
    {T(Image50, <<>>), T(Text(TxtAbCd), <<>>),
     T(Atomic("InlineBlockBox", "auto", 0, 4), <<>>)}

ConcTrees ==
    {T(Container("BlockContainerBox", Auto),
       <<T(Container("InlineBox", Auto), <<x, y>>),
         T(Container("LineBox", Auto), <<z>>)>>) :
        x \in ConcLeaves, y \in ConcLeaves, z \in ConcLeaves}

\* the boxes the two threads are started on: box 1 is the block container,
\* box 2 its first inline context, box 5 its second
ConcRoots == {<<2, 5>>, <<5, 2>>, <<2, 2>>, <<1, 2>>, <<1, 5>>}
ConcWidths == {None, 0}

InitConc ==
    /\ box \in {Heap(t) : t \in ConcTrees}
    /\ pre = box
    /\ call = NoCall
    /\ result = NoResult
    /\ \E r \in ConcRoots, mw1 \in ConcWidths, mw2 \in ConcWidths :
           thr = <<Thread(r[1], mw1), Thread(r[2], mw2)>>
    /\ last = 0
    /\ overlap = FALSE

NextConc ==
    \E t \in {1, 2} :
        \/ ThreadCall(t)
        \/ ThreadBlockReturn(t)
        \/ ThreadInlineChild(t)
        \/ ThreadInlineReturn(t)
        \/ ThreadResolvePercentages(t)
        \/ ThreadReplacedBoxWidth(t)
        \/ ThreadReadWidth(t)

SpecConc == InitConc /\ [][NextConc]_vars

\* ===================================================== properties
Called == call.fn # "none"
RootKind == pre[1].kind
RootChildren == pre[1].children
SetMax(S) == CHOOSE x \in S : \A y \in S : y <= x
Range(s) == {s[i] : i \in DOMAIN s}
StfOrPw == call.fn \in {"shrink_to_fit", "preferred_width"}
StfOrPmw == call.fn \in {"shrink_to_fit", "preferred_mimimum_width"}

\* C1: whenever both projections return a width for the same box, the
\* preferred minimum width is at most the preferred width, for every
\* maximum_width (None, 0 or positive): on the pair shrink_to_fit returned,
\* and on the two projections applied to the current tree.
C1_MinAtMostPreferred ==
    /\ (call.fn = "shrink_to_fit" /\ result.ok) => result.pmw <= result.pw
    /\ \A mw \in MaximumWidths :
          LET p == preferred_width(box, 1, mw)
              m == preferred_mimimum_width(box, 1)
          IN (p.ok /\ m.ok) => m.w <= p.w

\* C1 witness: shrink_to_fit returned at wrap width 0 on an inline context
\* of several children, with a positive minimum strictly below the preferred
C1_Witness ==
    /\ call.fn = "shrink_to_fit" /\ call.mw = 0 /\ result.ok
    /\ IsInlineContext(RootKind) /\ Len(RootChildren) >= 2
    /\ 0 < result.pmw /\ result.pmw < result.pw

\* C2: with maximum_width not None, a returned preferred width does not
\* exceed maximum_width.
C2_PreferredWithinMaximum ==
    (StfOrPw /\ call.mw # None /\ result.ok) => result.pw <= call.mw

\* the children C3 says both computations accept
AcceptableInlineChildren ==
    \A c \in Range(RootChildren) :
        IsTextBox(pre[c].kind) \/ IsAtomicInlineLevelBox(pre[c].kind)

\* C3: on an InlineBox or LineBox every call returns a width when all the
\* children are TextBox or AtomicInlineLevelBox, and fails with
\* InvalidInlineChild otherwise, the same for the preferred and the
\* preferred-minimum computation.
C3_SameChildrenAccepted ==
    (Called /\ IsInlineContext(RootKind)) =>
        IF AcceptableInlineChildren THEN result.ok
        ELSE ~result.ok /\ result.err = InvalidInlineChild

\* C4: shrink_to_fit on a BlockContainer of width Auto returns (0, 0)
\* without children, and otherwise the maximum of the children's preferred
\* widths (each at the caller's maximum_width) paired with the maximum of
\* the children's preferred minimum widths, each taken on its own; it
\* returns exactly when every child returns both.
C4_BlockIsMaxOfChildren ==
    (call.fn = "shrink_to_fit" /\ IsBlockContainerBox(RootKind)
        /\ pre[1].width = Auto) =>
        LET kids == Range(RootChildren)
            P(c) == preferred_width(pre, c, call.mw)
            M(c) == preferred_mimimum_width(pre, c)
            allOk == \A c \in kids : P(c).ok /\ M(c).ok
        IN IF kids = {} THEN result.ok /\ result.pw = 0 /\ result.pmw = 0
           ELSE /\ result.ok <=> allOk
                /\ allOk => /\ result.pw = SetMax({P(c).w : c \in kids})
                            /\ result.pmw = SetMax({M(c).w : c \in kids})

\* C4 witness: children with pairs (10, 3) and (7, 5) give (10, 5)
C4_Witness ==
    /\ call.fn = "shrink_to_fit" /\ call.mw = None
    /\ IsBlockContainerBox(RootKind) /\ pre[1].width = Auto
    /\ Len(RootChildren) = 2
    /\ IsBlockContainerBox(pre[RootChildren[1]].kind)
    /\ IsInlineContext(pre[RootChildren[2]].kind)
    /\ preferred_width(pre, RootChildren[1], None).w = 10
    /\ preferred_mimimum_width(pre, RootChildren[1]).w = 3
    /\ preferred_width(pre, RootChildren[2], None).w = 7
    /\ preferred_mimimum_width(pre, RootChildren[2]).w = 5
    /\ result.ok /\ result.pw = 10 /\ result.pmw = 5

RECURSIVE BlockReach(_, _)
\* b and the boxes reached from b through block-container children
BlockReach(h, b) ==
    {b} \cup IF IsBlockContainerBox(h[b].kind)
             THEN UNION {BlockReach(h, h[b].children[i]) : i \in DOMAIN h[b].children}
             ELSE {}

\* C5: if the root or a box reached through block-container children is a
\* BlockContainer whose width is not Auto, every call fails and returns no
\* width; when it is the root the failure is UnsupportedWidthMode and no
\* child was examined (nothing was written), whatever the children are.
C5_NonAutoBlockFails ==
    Called =>
        /\ (\E b \in BlockReach(pre, 1) :
                IsBlockContainerBox(pre[b].kind) /\ pre[b].width # Auto)
           => (~result.ok /\ result.pw = None /\ result.pmw = None)
        /\ (IsBlockContainerBox(RootKind) /\ pre[1].width # Auto)
           => (result.err = UnsupportedWidthMode /\ box = pre)

\* C5 witness: an Auto root whose first child was measured (a width was
\* written) and whose later child holds a fixed-width block: the call failed
C5_Witness ==
    /\ Called /\ IsBlockContainerBox(RootKind) /\ pre[1].width = Auto
    /\ \E b \in BlockReach(pre, 1) \ ({1} \cup Range(RootChildren)) :
          IsBlockContainerBox(pre[b].kind) /\ pre[b].width # Auto
    /\ box # pre
    /\ ~result.ok /\ result.err = UnsupportedWidthMode

Routed(k) == IsBlockContainerBox(k) \/ IsInlineContext(k)

\* whether the call's traversal gets past child c of the root
ChildReturns(c) ==
    IF call.fn = "preferred_mimimum_width"
    THEN preferred_mimimum_width(pre, c).ok
    ELSE preferred_width(pre, c, call.mw).ok

\* C6: a call returns a width only for a BlockContainer, InlineBox or
\* LineBox; any other kind at the top level, or met as a direct child of a
\* BlockContainer, makes the call fail with UnsupportedBoxKind.
C6_OnlyRoutedKinds ==
    Called =>
        /\ result.ok => Routed(RootKind)
        /\ ~Routed(RootKind) => (~result.ok /\ result.err = UnsupportedBoxKind)
        /\ (IsBlockContainerBox(RootKind) /\ pre[1].width = Auto) =>
              \A i \in DOMAIN RootChildren :
                 (/\ ~Routed(pre[RootChildren[i]].kind)
                  /\ \A j \in 1..(i - 1) : ChildReturns(RootChildren[j]))
                 => (~result.ok /\ result.err = UnsupportedBoxKind)

\* C6 witness: a block container whose first child returns and whose second
\* child is an atomic inline-level box or a text box
C6_Witness ==
    /\ Called /\ IsBlockContainerBox(RootKind) /\ pre[1].width = Auto
    /\ Len(RootChildren) = 2
    /\ ChildReturns(RootChildren[1])
    /\ ~Routed(pre[RootChildren[2]].kind)
    /\ result.err = UnsupportedBoxKind

\* the inline contexts the traversal can reach
MeasuredContexts == {p \in BlockReach(pre, 1) : IsInlineContext(pre[p].kind)}

\* C7: after any call, returned or failed, the same boxes exist with the
\* same kind, children, style and text, and a width differs only on an
\* atomic inline-level child of an inline context the traversal reached.
C7_OnlyAtomicWidthsWritten ==
    Called =>
        /\ DOMAIN box = DOMAIN pre
        /\ \A b \in DOMAIN pre :
             /\ box[b].kind = pre[b].kind
             /\ box[b].children = pre[b].children
             /\ box[b].style = pre[b].style
             /\ box[b].text = pre[b].text
             /\ box[b].width # pre[b].width =>
                   /\ IsAtomicInlineLevelBox(pre[b].kind)
                   /\ \E p \in MeasuredContexts : b \in Range(pre[p].children)

\* C7 witness: a call that failed after it had written a replaced box's width
C7_Witness ==
    /\ Called /\ ~result.ok
    /\ \E b \in DOMAIN pre :
          IsInlineReplacedBox(pre[b].kind) /\ box[b].width # pre[b].width

\* ---- the line layout C9 describes, built from the children in order
Break == [brk |-> TRUE, w |-> 0]
Piece(w) == [brk |-> FALSE, w |-> w]

RECURSIVE Interleave(_)
\* the lines of one text run with a break between consecutive lines
Interleave(lines) ==
    IF Len(lines) = 1 THEN <<Piece(lines[1])>>
    ELSE <<Piece(lines[1]), Break>> \o Interleave(Tail(lines))

RECURSIVE LineWidth(_)
\* the width of a line: the sum of its pieces
LineWidth(line) == IF line = <<>> THEN 0 ELSE line[1].w + LineWidth(Tail(line))

RECURSIVE Pieces(_, _, _)
\* the pieces of the inline context in order: a replaced child is one
\* piece, a text run gives its measured lines separated by breaks
Pieces(h, kids, mw) ==
    IF kids = <<>> THEN <<>>
    ELSE (IF IsTextBox(h[kids[1]].kind)
          THEN Interleave(line_widths(h[kids[1]].text, mw))
          ELSE <<Piece(replaced_preferred_width(h, kids[1]).w)>>)
         \o Pieces(h, Tail(kids), mw)

\* the width of the widest line of that layout
WidestLayoutLine(h, kids, mw) ==
    LET lines == SplitOn(Pieces(h, kids, mw), Break)
    IN SetMax({LineWidth(lines[i]) : i \in DOMAIN lines})

TextAndReplacedChildren ==
    \A c \in Range(RootChildren) :
        IsTextBox(pre[c].kind) \/ IsInlineReplacedBox(pre[c].kind)

\* C9: on an inline context of text runs and replaced boxes the preferred
\* width is the width of the widest line of the layout in which only the
\* breaks between a run's measured lines end a line (0 without children).
C9_PreferredIsWidestLine ==
    (StfOrPw /\ IsInlineContext(RootKind) /\ TextAndReplacedChildren) =>
        /\ result.ok
        /\ result.pw = WidestLayoutLine(pre, RootChildren, call.mw)
        /\ RootChildren = <<>> => result.pw = 0

\* C9 witness: a replaced child of width 50 followed by "a b c" gives 55
C9_Witness ==
    /\ call.fn = "preferred_width" /\ call.mw = None
    /\ IsInlineContext(RootKind) /\ Len(RootChildren) = 2
    /\ IsInlineReplacedBox(pre[RootChildren[1]].kind)
    /\ pre[RootChildren[1]].intrinsic = 50
    /\ pre[RootChildren[2]].text = TxtABC
    /\ result.ok /\ result.pw = 55

\* what one child contributes to the preferred minimum width
MinContribution(c) ==
    IF IsTextBox(pre[c].kind) THEN SetMax(Range(line_widths(pre[c].text, 0)))
    ELSE replaced_preferred_width(pre, c).w

\* C10: on an inline context of text runs and atomic boxes the preferred
\* minimum width is the largest single contribution of a child (0 without
\* children), whatever the order of the children and whatever maximum_width
\* shrink_to_fit was given.
C10_MinimumIsLargestChild ==
    (StfOrPmw /\ IsInlineContext(RootKind) /\ AcceptableInlineChildren
        /\ (call.fn = "shrink_to_fit" => result.ok)) =>
        /\ result.ok
        /\ result.pmw = SetMax({0} \cup {MinContribution(c) : c \in Range(RootChildren)})

\* C10 witness: shrink_to_fit with a bound, two children that both
\* contribute, the result being the larger and not the sum
C10_Witness ==
    /\ call.fn = "shrink_to_fit" /\ call.mw # None /\ result.ok
    /\ IsInlineContext(RootKind) /\ Len(RootChildren) = 2
    /\ IsTextBox(pre[RootChildren[1]].kind)
    /\ IsInlineReplacedBox(pre[RootChildren[2]].kind)
    /\ MinContribution(RootChildren[1]) > 0
    /\ MinContribution(RootChildren[2]) > MinContribution(RootChildren[1])
    /\ result.pmw = MinContribution(RootChildren[2])

RECURSIVE Reach(_, _)
\* b and every box below it
Reach(h, b) == {b} \cup UNION {Reach(h, h[b].children[i]) : i \in DOMAIN h[b].children}

ThreadsStarted == thr # NoThreads
BothDone == ThreadsStarted /\ ~Running(1) /\ ~Running(2)
\* the two calls' subtrees share no box
DisjointSubtrees == Reach(pre, thr[1].root) \cap Reach(pre, thr[2].root) = {}

\* thread th ended as the sequential call s did
SameOutcome(th, s) ==
    /\ (th.status = "returned") <=> s.ok
    /\ s.ok => (th.pw = s.pw /\ th.pmw = s.pmw)
    /\ ~s.ok => th.err = s.err

\* the two calls run one after the other, thread a's first
SequentialEnd(a) ==
    LET b == Other(a)
        first == shrink_to_fit(pre, thr[a].root, thr[a].mw)
        second == shrink_to_fit(first.heap, thr[b].root, thr[b].mw)
    IN /\ SameOutcome(thr[a], first)
       /\ SameOutcome(thr[b], second)
       /\ box = second.heap

\* C8: two concurrent shrink_to_fit calls on subtrees that share no box,
\* interleaved statement by statement, each end as they do when run one
\* after the other (in either order) and leave the same box widths.
C8_DisjointCallsAsSequential ==
    (BothDone /\ DisjointSubtrees) => (SequentialEnd(1) /\ SequentialEnd(2))

\* C8 witness: both calls returned on disjoint subtrees after steps of one
\* fell between the sizer statements of the other, each having written a width
C8_Witness ==
    /\ BothDone /\ DisjointSubtrees /\ overlap
    /\ thr[1].status = "returned" /\ thr[2].status = "returned"
    /\ \E b \in Reach(pre, thr[1].root) : box[b].width # pre[b].width
    /\ \E b \in Reach(pre, thr[2].root) : box[b].width # pre[b].width

\* C8, second half: on subtrees that share a replaced box some interleaving
\* ends a call differently from its sequential run (this state is reachable)
C8_RaceState ==
    /\ BothDone /\ ~DisjointSubtrees
    /\ \E b \in Reach(pre, thr[1].root) \cap Reach(pre, thr[2].root) :
          IsInlineReplacedBox(pre[b].kind)
    /\ \E t \in {1, 2} :
          LET s == shrink_to_fit(pre, thr[t].root, thr[t].mw)
          IN /\ s.ok /\ thr[t].status = "returned"
             /\ <<thr[t].pw, thr[t].pmw>> # <<s.pw, s.pmw>>

\* no interleaving on shared subtrees ends differently (refuted by C8_RaceState)
C8_NoRace == ~C8_RaceState

====
